---------------------------- MODULE Spec2Model ----------------------------
(***************************************************************************)
(* A model of make_Cmatrix.py and chisquare_test.py: the symmetric codec   *)
(* (symSave / symLoad), the mean correction (cMatCorrect), the sub-matrix  *)
(* extraction (subMatrix2), the eigen inversion (RDInvert), the covariance *)
(* builder (makeCmatrix) and the chi-square driver (chisquare_test.test).  *)
(*                                                                         *)
(* Numbers.  A float is modelled by an exact value <<n, d, e>> standing    *)
(* for (n/d) * 10^e, kept canonical (d > 0, gcd(n,d) = 1, neither n nor d  *)
(* divisible by 10, zero is <<0,1,0>>).  d = 0 marks the IEEE specials     *)
(* numpy produces instead of raising: <<1,0,0>> is +inf, <<-1,0,0>> is     *)
(* -inf and <<0,0,0>> is nan.  Rounding is not modelled.                   *)
(*                                                                         *)
(* Arrays are 1-indexed sequences; a Python index k is k+1 here.  A 2-d    *)
(* array is a sequence of rows.                                            *)
(***************************************************************************)
EXTENDS Integers, Sequences, FiniteSets, TLC

\* op:   the function that ran last ("init" before any call)
\* args: the arguments of the call under study
\* disk: the .npy file symSave writes and symLoad reads
\* ret:  what the last call returned
VARIABLES op, args, disk, ret

vars == <<op, args, disk, ret>>

(***************************************************************************)
(* Bounds of the model.                                                    *)
(***************************************************************************)
\* largest symmetric matrix drawn as an input
MaxN == 3
\* largest arbitrary (not necessarily symmetric) square matrix drawn as an input
MaxSq == 2
\* number of pixels of the pixel universe the masks of subMatrix2 range over
USize == 3
\* the caller's lmax is drawn from 0..MaxLmax
MaxLmax == 2
\* highpass is drawn from 0..MaxHighpass
MaxHighpass == 1
\* number of leading multipoles of an input power spectrum that may be non-zero
SpecHead == 3

(***************************************************************************)
(* Constants of the program.                                               *)
(***************************************************************************)
\* lmax = 250 under beamSmooth or pixWin
SmoothLmax == 250
\* hp.pixwin(64): the maps are NSIDE = 64
NSide == 64
\* C_l * 1e12, the K**2 to microK**2 rescale
MicroExp == 12
\* entries of input matrices are drawn from 0..MaxVal
MaxVal == 1

(***************************************************************************)
(* Exact arithmetic standing for numpy's float64 arithmetic.               *)
(***************************************************************************)
Abs(i) == IF i < 0 THEN -i ELSE i

Sgn(i) == IF i < 0 THEN -1 ELSE IF i > 0 THEN 1 ELSE 0

Min(i, j) == IF i < j THEN i ELSE j

RECURSIVE GCD(_, _)
GCD(i, j) == IF j = 0 THEN i ELSE GCD(j, i % j)

RECURSIVE Pow10(_)
Pow10(k) == IF k = 0 THEN 1 ELSE 10 * Pow10(k - 1)

\* move the factors of ten of numerator and denominator into the exponent
RECURSIVE Strip(_, _, _)
Strip(n, d, e) ==
  IF n % 10 = 0 THEN Strip(n \div 10, d, e + 1)
  ELSE IF d % 10 = 0 THEN Strip(n, d \div 10, e - 1)
  ELSE <<n, d, e>>

\* the canonical number (n/d) * 10^e
Mk(n, d, e) ==
  IF d = 0 THEN <<Sgn(n), 0, 0>>
  ELSE IF n = 0 THEN <<0, 1, 0>>
  ELSE IF d = 1 /\ n % 10 # 0 THEN <<n, 1, e>>
  ELSE LET g == GCD(Abs(n), Abs(d))
       IN  Strip((Sgn(d) * n) \div g, Abs(d) \div g, e)

Zero == <<0, 1, 0>>
One  == <<1, 1, 0>>
Inf  == <<1, 0, 0>>
NaN  == <<0, 0, 0>>

FromInt(i) == IF i % 10 # 0 THEN <<i, 1, 0>> ELSE Mk(i, 1, 0)

IsFinite(a) == a[2] # 0

RMul(a, b) ==
  IF IsFinite(a) /\ IsFinite(b) /\ (a[1] = 0 \/ b[1] = 0) THEN Zero
  ELSE Mk(a[1] * b[1], a[2] * b[2], a[3] + b[3])

RNeg(a) == <<-a[1], a[2], a[3]>>

RAdd(a, b) ==
  IF ~IsFinite(a) \/ ~IsFinite(b)
  THEN IF a = NaN \/ b = NaN THEN NaN
       ELSE IF ~IsFinite(a) /\ ~IsFinite(b)
            THEN (IF a = b THEN a ELSE NaN)
            ELSE IF ~IsFinite(a) THEN a ELSE b
  ELSE IF a[1] = 0 THEN b
  ELSE IF b[1] = 0 THEN a
  ELSE LET m  == Min(a[3], b[3])
           an == a[1] * Pow10(a[3] - m)
           bn == b[1] * Pow10(b[3] - m)
       IN  Mk(an * b[2] + bn * a[2], a[2] * b[2], m)

RSub(a, b) == RAdd(a, RNeg(b))

\* x**-1 on a float: 0.0**-1 is inf (a RuntimeWarning, no exception)
Recip(a) == Mk(a[2], a[1], -a[3])

RDiv(a, b) ==
  IF IsFinite(a) /\ a[1] = 0 /\ IsFinite(b) /\ b[1] # 0 THEN Zero
  ELSE RMul(a, Recip(b))

(***************************************************************************)
(* numpy array helpers.                                                    *)
(***************************************************************************)
\* the sum of s[lo..hi], by halves
RECURSIVE SumRange(_, _, _)
SumRange(s, lo, hi) ==
  IF lo > hi THEN Zero
  ELSE IF lo = hi THEN s[lo]
  ELSE LET mid == (lo + hi) \div 2
       IN  RAdd(SumRange(s, lo, mid), SumRange(s, mid + 1, hi))

SumSeq(s) == SumRange(s, 1, Len(s))

RECURSIVE Flatten(_)
Flatten(ss) == IF ss = <<>> THEN <<>> ELSE Head(ss) \o Flatten(Tail(ss))

\* np.zeros([n, n])
Zeros(n) == [i \in 1..n |-> [j \in 1..n |-> Zero]]

\* np.transpose(a) of a square array
Transpose(a) == [i \in 1..Len(a) |-> [j \in 1..Len(a) |-> a[j][i]]]

\* np.diag(np.diag(a)): the diagonal of a as a diagonal matrix
DiagDiag(a) ==
  [i \in 1..Len(a) |-> [j \in 1..Len(a) |-> IF i = j THEN a[i][i] ELSE Zero]]

MatAdd(a, b) == [i \in 1..Len(a) |-> [j \in 1..Len(a) |-> RAdd(a[i][j], b[i][j])]]

MatSub(a, b) == [i \in 1..Len(a) |-> [j \in 1..Len(a) |-> RSub(a[i][j], b[i][j])]]

\* np.dot of two square arrays
Dot(a, b) ==
  [i \in 1..Len(a) |-> [j \in 1..Len(a) |->
     SumSeq([k \in 1..Len(a) |-> RMul(a[i][k], b[k][j])])]]

\* np.triu_indices(n): the (row, column) pairs of the upper triangle, row-major
TriuIndices(n) ==
  Flatten([i \in 1..n |-> [k \in 1..(n - i + 1) |-> <<i, i + k - 1>>]])

IsSymmetric(m) == \A i, j \in 1..Len(m) : m[i][j] = m[j][i]

(***************************************************************************)
(* Inputs.                                                                 *)
(***************************************************************************)
Vals == {FromInt(v) : v \in 0..MaxVal}

\* the entries of the matrices handed to cMatCorrect
Bits == {Zero, One}

\* the place of entry (i, j), i <= j, in the row-major upper triangle of an
\* n x n matrix
TriuPos(n, i, j) == (i - 1) * n - ((i - 1) * (i - 2)) \div 2 + (j - i + 1)

\* the upper triangles of the n x n matrices with entries in vals
UpperTriangles(n, vals) == [1..((n * (n + 1)) \div 2) -> vals]

\* the symmetric n x n matrix with upper triangle v
SymMatrix(n, v) ==
  [i \in 1..n |-> [j \in 1..n |->
     IF i <= j THEN v[TriuPos(n, i, j)] ELSE v[TriuPos(n, j, i)]]]

\* all n x n matrices with entries in vals
SqMatrices(n, vals) == [1..n -> [1..n -> vals]]


\* no .npy file on disk yet
NoFile == [exists |-> FALSE, data |-> <<>>]

\* what an operation hands back: nothing, an array, a plain Python value or
\* an exception
None == [kind |-> "none"]

Array(a) == [kind |-> "array", val |-> a]

Raised(e) == [kind |-> "error", err |-> e]

(***************************************************************************)
(* symSave / symLoad                                                       *)
(***************************************************************************)
\* saveMe[np.triu_indices_from(saveMe)]
SymSaveVec(m) ==
  LET idx == TriuIndices(Len(m))
  IN  [k \in 1..Len(idx) |-> m[idx[k][1]][idx[k][2]]]

\* floor of the square root
ISqrt(k) == CHOOSE s \in 0..k : s * s <= k /\ k < (s + 1) * (s + 1)

\* n = -1/2. + np.sqrt(1/4. + 2*loaded.size), truncated by np.zeros([n, n]):
\* sqrt(1/4 + 2 s) = sqrt(1 + 8 s) / 2
SymLoadN(size) == (ISqrt(1 + 8 * size) - 1) \div 2

\* array = zeros; array[np.triu_indices(n)] = loaded
FillUpper(n, loaded) ==
  LET idx == TriuIndices(n)
      pos(i, j) == CHOOSE k \in 1..Len(idx) : idx[k] = <<i, j>>
  IN  [i \in 1..n |-> [j \in 1..n |->
         IF i <= j THEN loaded[pos(i, j)] ELSE Zero]]

\* a slip: the diagonal, counted twice by the sum, is not taken off again
SymLoadCombineKeepsDiag(array) == MatAdd(array, Transpose(array))

\* array + np.transpose(array) - np.diag(np.diag(array))
SymLoadCombine(array) ==
  MatSub(MatAdd(array, Transpose(array)), DiagDiag(array))

SymLoadArray(loaded) ==
  LET n == SymLoadN(Len(loaded))
  IN  IF Len(TriuIndices(n)) # Len(loaded) THEN Raised("ValueError")
      ELSE Array(SymLoadCombine(FillUpper(n, loaded)))

\* a run starts with the matrix the caller is about to save
InitCodec ==
  /\ op = "init"
  /\ \E n \in 1..MaxN : \E v \in UpperTriangles(n, Vals) :
       args = [saveMe |-> SymMatrix(n, v)]
  /\ disk = NoFile
  /\ ret = None

SymSave ==
  /\ op' = "symSave"
  /\ disk' = [exists |-> TRUE, data |-> SymSaveVec(args.saveMe)]
  /\ ret' = None
  /\ UNCHANGED args

SymLoad ==
  /\ disk.exists
  /\ op' = "symLoad"
  /\ ret' = SymLoadArray(disk.data)
  /\ UNCHANGED <<args, disk>>

NextCodec == SymSave \/ SymLoad

SpecCodec == InitCodec /\ [][NextCodec]_vars

\* C1: decoding what symSave wrote for a symmetric N x N matrix (a flat
\* upper triangle of N(N+1)/2 values) gives back that matrix, entry for
\* entry: no entry is lost and the diagonal is not doubled.
C1_RoundTrip ==
  (op = "symLoad" /\ IsSymmetric(args.saveMe)) =>
     /\ Len(disk.data) = (Len(args.saveMe) * (Len(args.saveMe) + 1)) \div 2
     /\ ret.kind = "array"
     /\ ret.val = args.saveMe

C1_Witness ==
  /\ op = "symLoad"
  /\ Len(args.saveMe) = 3
  /\ args.saveMe[1][1] # Zero
  /\ args.saveMe[1][2] # args.saveMe[2][3]
  /\ ret.kind = "array"
  /\ ret.val = args.saveMe

(***************************************************************************)
(* cMatCorrect                                                             *)
(***************************************************************************)
\* np.sum(cMatrix, axis=0): entry j is the sum of column j
SumAxis0(m) == [j \in 1..Len(m) |-> SumSeq([i \in 1..Len(m) |-> m[i][j]])]

\* np.sum(cMatrix, axis=1): entry i is the sum of row i
SumAxis1(m) == [i \in 1..Len(m) |-> SumSeq(m[i])]

\* np.sum(cMatrix)
SumAll(m) == SumSeq(Flatten(m))

\* a slip: np.tile in place of np.repeat (c2, c2, ... instead of each entry repeated)
Tile(v, k) == [q \in 1..(Len(v) * k) |-> v[((q - 1) % Len(v)) + 1]]

\* np.repeat(v, k): every entry k times in a row
Repeat(v, k) == [q \in 1..(Len(v) * k) |-> v[((q - 1) \div k) + 1]]

\* np.reshape(flat, (size, size))
Reshape(flat, size) ==
  [i \in 1..size |-> [j \in 1..size |-> flat[(i - 1) * size + j]]]

CMatCorrectArray(cMatrix) ==
  LET size  == Len(cMatrix)
      c1    == SumAxis0(cMatrix)
      c2    == SumAxis1(cMatrix)
      c3    == SumAll(cMatrix)
      c2mat == Reshape(Repeat(c2, size), size)
      \* c1 broadcasts along the rows: row i, column j gets c1[j]
  IN  [i \in 1..size |-> [j \in 1..size |->
         RAdd(RSub(RSub(cMatrix[i][j], RDiv(c1[j], FromInt(size))),
                   RDiv(c2mat[i][j], FromInt(size))),
              RDiv(c3, FromInt(size * size)))]]

InitCorrect ==
  /\ op = "init"
  /\ \/ \E n \in 1..MaxN : \E v \in UpperTriangles(n, Bits) :
          args = [cMatrix |-> SymMatrix(n, v)]
     \/ \E n \in 1..MaxSq : \E m \in SqMatrices(n, Bits) :
          args = [cMatrix |-> m]
  /\ disk = NoFile
  /\ ret = None

CMatCorrect ==
  /\ op' = "cMatCorrect"
  /\ ret' = Array(CMatCorrectArray(args.cMatrix))
  /\ UNCHANGED <<args, disk>>

NextCorrect == CMatCorrect

SpecCorrect == InitCorrect /\ [][NextCorrect]_vars

RowSum(m, i) == SumSeq(m[i])

ColSum(m, j) == SumSeq([i \in 1..Len(m) |-> m[i][j]])

Total(m) == SumSeq([i \in 1..Len(m) |-> RowSum(m, i)])

\* C3: cMatCorrect returns C[i][j] - r_i/N - c_j/N + T/N^2, every row of the
\* result sums to zero, and the result is symmetric whenever C is.
C3_MeanCorrected ==
  op = "cMatCorrect" =>
    LET C == args.cMatrix
        N == Len(C)
        R == ret.val
    IN  /\ Len(R) = N
        /\ \A i, j \in 1..N :
              R[i][j] = RAdd(RSub(C[i][j],
                                  RAdd(RDiv(RowSum(C, i), FromInt(N)),
                                       RDiv(ColSum(C, j), FromInt(N)))),
                             RDiv(Total(C), FromInt(N * N)))
        /\ \A i \in 1..N : RowSum(R, i) = Zero
        /\ IsSymmetric(C) => IsSymmetric(R)

\* a non-symmetric input whose row and column sums differ, and a symmetric one
C3_Witness ==
  /\ op = "cMatCorrect"
  /\ Len(args.cMatrix) = 2
  /\ ~IsSymmetric(args.cMatrix)
  /\ RowSum(args.cMatrix, 1) # ColSum(args.cMatrix, 1)
  /\ ret.val # args.cMatrix
  /\ RowSum(ret.val, 1) = Zero

(***************************************************************************)
(* subMatrix2                                                              *)
(***************************************************************************)
\* a Python int handed back in place of an array
PyInt(k) == [kind |-> "int", val |-> k]

\* np.where(mask)[0]: the (0-based) indices of the non-zero entries, ascending
RECURSIVE WhereFrom(_, _)
WhereFrom(mask, p) ==
  IF p > Len(mask) THEN <<>>
  ELSE (IF mask[p] # 0 THEN <<p - 1>> ELSE <<>>) \o WhereFrom(mask, p + 1)

Where(mask) == WhereFrom(mask, 1)

\* "pixel in vec" on a 1-d array
InVec(pixel, vec) == \E k \in 1..Len(vec) : vec[k] = pixel

\* a slip: the matches are collected from the last superset position down
SubVecDescending(maskVec, bigMaskVec) ==
  LET nb == Len(bigMaskVec)
  IN  Flatten([q \in 1..nb |->
        Flatten([subI \in 1..Len(maskVec) |->
          IF maskVec[subI] = bigMaskVec[nb + 1 - q] THEN <<nb - q>> ELSE <<>>])])

\* [bigI for bigI in range(bigMaskVec.size) for subI in range(maskVec.size)
\*       if maskVec[subI] == bigMaskVec[bigI]]   (0-based positions)
SubVec(maskVec, bigMaskVec) ==
  Flatten([bigI \in 1..Len(bigMaskVec) |->
    Flatten([subI \in 1..Len(maskVec) |->
      IF maskVec[subI] = bigMaskVec[bigI] THEN <<bigI - 1>> ELSE <<>>])])

\* a slip: indexing='ij', the first grid varies along the rows
MeshgridIJ(x, y) ==
  << [a \in 1..Len(x) |-> [b \in 1..Len(y) |-> x[a]]],
     [a \in 1..Len(x) |-> [b \in 1..Len(y) |-> y[b]]] >>

\* np.meshgrid(x, y), default indexing='xy': two arrays of shape
\* (len(y), len(x)), the first repeating x along each row, the second
\* repeating y down each column
Meshgrid(x, y) ==
  << [a \in 1..Len(y) |-> [b \in 1..Len(x) |-> x[b]]],
     [a \in 1..Len(y) |-> [b \in 1..Len(x) |-> y[a]]] >>

\* cMatrix[[X, Y]]: the list of two index arrays is taken as the index pair
\* (X, Y), so entry [a][b] is cMatrix[X[a][b], Y[a][b]]  (0-based indices)
FancyIndex(cMatrix, grids) ==
  LET X == grids[1]
      Y == grids[2]
  IN  [a \in 1..Len(X) |-> [b \in 1..Len(X[a]) |->
         cMatrix[X[a][b] + 1][Y[a][b] + 1]]]

SubMatrix2Result(mask, bigMask, cMatrix) ==
  LET maskVec    == Where(mask)
      bigMaskVec == Where(bigMask)
  IN  IF \E k \in 1..Len(maskVec) : ~InVec(maskVec[k], bigMaskVec)
      THEN PyInt(0)
      ELSE LET subVec == SubVec(maskVec, bigMaskVec)
           IN  Array(FancyIndex(cMatrix, Meshgrid(subVec, subVec)))

Masks == [1..USize -> {0, 1}]

CountActive(mask) == Cardinality({p \in 1..Len(mask) : mask[p] # 0})

\* K x K test matrices: a times the row-major labelling, plus b times its
\* transpose, plus c times the symmetric table i*j
LabelMatrix(K, a, b, c) ==
  [i \in 1..K |-> [j \in 1..K |->
     FromInt(a * ((i - 1) * K + j) + b * ((j - 1) * K + i) + c * i * j)]]

InitSub ==
  /\ op = "init"
  /\ \E m \in Masks, bm \in Masks, a \in 0..MaxVal, b \in 0..MaxVal,
        c \in 0..MaxVal :
       args = [mask |-> m, bigMask |-> bm,
               cMatrix |-> LabelMatrix(CountActive(bm), a, b, c)]
  /\ disk = NoFile
  /\ ret = None

SubMatrix2 ==
  /\ op' = "subMatrix2"
  /\ ret' = SubMatrix2Result(args.mask, args.bigMask, args.cMatrix)
  /\ UNCHANGED <<args, disk>>

NextSub == SubMatrix2

SpecSub == InitSub /\ [][NextSub]_vars

Contained(mask, bigMask) == \A p \in 1..Len(mask) : mask[p] # 0 => bigMask[p] # 0

\* the active pixels (1-based places in the mask), ascending
ActiveSet(mask) == {p \in 1..Len(mask) : mask[p] # 0}

\* the a-th active pixel of a mask
NthActive(mask, a) ==
  CHOOSE p \in ActiveSet(mask) : Cardinality({q \in ActiveSet(mask) : q <= p}) = a

\* the place of pixel p within the active pixels of bigMask
PlaceIn(bigMask, p) == Cardinality({q \in ActiveSet(bigMask) : q <= p})

\* C4 (as claimed): a subset mask with an active pixel outside the superset
\* makes subMatrix2 fail with a ValidationError; nothing is returned.
C4_FailsWithValidationError ==
  (op = "subMatrix2" /\ ~Contained(args.mask, args.bigMask)) =>
     (ret.kind = "error" /\ ret.err = "ValidationError")

\* C5: with the subset mask equal to the superset mask and a symmetric
\* matrix of matching size, subMatrix2 returns the matrix itself.
C5_SameMaskIdentity ==
  (/\ op = "subMatrix2"
   /\ args.mask = args.bigMask
   /\ IsSymmetric(args.cMatrix)) =>
     (ret.kind = "array" /\ ret.val = args.cMatrix)

C5_Witness ==
  /\ op = "subMatrix2"
  /\ args.mask = args.bigMask
  /\ CountActive(args.mask) = 2
  /\ IsSymmetric(args.cMatrix)
  /\ args.cMatrix[1][1] # args.cMatrix[2][2]
  /\ args.cMatrix[1][2] # Zero
  /\ ret.kind = "array"
  /\ ret.val = args.cMatrix

\* C6 (as claimed): for a contained subset mask and any square matrix,
\* entry [a][b] of the result is M[p_a][p_b].
C6_SelectsRowsThenColumns ==
  (op = "subMatrix2" /\ Contained(args.mask, args.bigMask)) =>
     /\ ret.kind = "array"
     /\ Len(ret.val) = CountActive(args.mask)
     /\ \A a, b \in 1..CountActive(args.mask) :
           ret.val[a][b] =
             args.cMatrix[PlaceIn(args.bigMask, NthActive(args.mask, a))]
                         [PlaceIn(args.bigMask, NthActive(args.mask, b))]

\* C6 (amended): for a contained subset mask and any square matrix, the
\* result is K x K, in the subset's ascending order, and entry [a][b] is
\* M[p_b][p_a], the transposed selection; it is M[p_a][p_b] when M is symmetric.
C6_SelectsTransposed ==
  (op = "subMatrix2" /\ Contained(args.mask, args.bigMask)) =>
     /\ ret.kind = "array"
     /\ Len(ret.val) = CountActive(args.mask)
     /\ \A a \in 1..CountActive(args.mask) :
           Len(ret.val[a]) = CountActive(args.mask)
     /\ \A a, b \in 1..CountActive(args.mask) :
           LET pa == PlaceIn(args.bigMask, NthActive(args.mask, a))
               pb == PlaceIn(args.bigMask, NthActive(args.mask, b))
           IN  /\ ret.val[a][b] = args.cMatrix[pb][pa]
               /\ IsSymmetric(args.cMatrix) => ret.val[a][b] = args.cMatrix[pa][pb]

\* a proper subset that skips a superset pixel, taken from a non-symmetric matrix
C6_Witness ==
  /\ op = "subMatrix2"
  /\ args.bigMask = [p \in 1..USize |-> 1]
  /\ args.mask = [p \in 1..USize |-> IF p = 2 THEN 0 ELSE 1]
  /\ ~IsSymmetric(args.cMatrix)
  /\ ret.kind = "array"
  /\ ret.val[1][2] = args.cMatrix[USize][1]
  /\ ret.val[1][2] # args.cMatrix[1][USize]

(***************************************************************************)
(* RDInvert                                                                *)
(***************************************************************************)
\* eigVals**-1, elementwise
RecipAll(v) == [k \in 1..Len(v) |-> Recip(v[k])]

\* np.diag(v) of a 1-d array: the diagonal matrix
Diag(v) ==
  [i \in 1..Len(v) |-> [j \in 1..Len(v) |-> IF i = j THEN v[i] ELSE Zero]]

RDInvertArray(eigVals, eigVecs) ==
  LET diagInv          == Diag(RecipAll(eigVals))
      eigVecsTranspose == Transpose(eigVecs)
  IN  Dot(Dot(eigVecs, diagInv), eigVecsTranspose)

InitInvert ==
  /\ op = "init"
  /\ \E n \in 1..MaxSq : \E w \in [1..n -> Vals], v \in SqMatrices(n, Vals) :
       args = [eigVals |-> w, eigVecs |-> v]
  /\ disk = NoFile
  /\ ret = None

RDInvert ==
  /\ op' = "RDInvert"
  /\ ret' = Array(RDInvertArray(args.eigVals, args.eigVecs))
  /\ UNCHANGED <<args, disk>>

NextInvert == RDInvert

SpecInvert == InitInvert /\ [][NextInvert]_vars

HasZeroEigenvalue(eigVals) == \E k \in 1..Len(eigVals) : eigVals[k] = Zero

\* C8 (as claimed): with a zero eigenvalue RDInvert fails with a
\* SingularMatrixError and returns no matrix.
C8_FailsOnZeroEigenvalue ==
  (op = "RDInvert" /\ HasZeroEigenvalue(args.eigVals)) =>
     (ret.kind = "error" /\ ret.err = "SingularMatrixError")

\* what the code does instead: with a zero eigenvalue it returns an array
\* that holds an infinite or undefined entry
C8_ReturnsNonFinite ==
  (op = "RDInvert" /\ HasZeroEigenvalue(args.eigVals)) =>
     /\ ret.kind = "array"
     /\ \E i, j \in 1..Len(ret.val) : ~IsFinite(ret.val[i][j])

(***************************************************************************)
(* makeCmatrix                                                             *)
(*                                                                         *)
(* The sky is a small pixelization standing for HEALPix NSIDE = 64: each   *)
(* pixel is a unit vector, numbered once in RING order and once in NESTED  *)
(* order.  Weights and covariances are in units of 1/(4 pi).               *)
(***************************************************************************)
\* the pixel centres in RING order (north to south)
RingVecs == << <<0, 0, 1>>, <<1, 0, 0>>, <<0, 0, -1>> >>

\* the RING number of the pixel at each NESTED number
Nest2Ring == <<2, 3, 1>>

NPix == Len(RingVecs)

\* the NESTED number of the pixel at each RING number
Ring2Nest == [r \in 1..NPix |-> CHOOSE n \in 1..NPix : Nest2Ring[n] = r]

\* hp.read_map(file, nest=nested): the map in the ordering asked for,
\* reordered when the file's ORDERING differs
ReadMap(file, nested) ==
  IF (file.ordering = "NESTED") = nested THEN file.data
  ELSE IF nested THEN [n \in 1..NPix |-> file.data[Nest2Ring[n]]]
  ELSE [r \in 1..NPix |-> file.data[Ring2Nest[r]]]

\* the pixel coordinates file of the ordering, as unit vectors
\* (hp.read_map of the coordinates, then hp.rotator.dir2vec)
CoordVecs(nested) ==
  IF nested THEN [n \in 1..NPix |-> RingVecs[Nest2Ring[n]]] ELSE RingVecs

\* array[np.where(mask)]
TakeWhere(array, mask) ==
  LET idx == Where(mask)
  IN  [k \in 1..Len(idx) |-> array[idx[k] + 1]]

\* np.dot of two 3-vectors
Dot3(u, v) == u[1] * v[1] + u[2] * v[2] + u[3] * v[3]

\* the half matrix of cosines: 1.0 on the diagonal, the dot products above
\* it, zeros below
CosThetaArray(unitVectors) ==
  [row \in 1..Len(unitVectors) |-> [column \in 1..Len(unitVectors) |->
     IF column = row THEN One
     ELSE IF column > row
          THEN FromInt(Dot3(unitVectors[row], unitVectors[column]))
          ELSE Zero]]

\* the array with every entry computed once and kept (an array in memory)
Stored(a) == SubSeq(a, 1, Len(a))

\* a[:k]
Take(a, k) == SubSeq(a, 1, Min(k, Len(a)))

\* a[k:]
Drop(a, k) == SubSeq(a, Min(k, Len(a)) + 1, Len(a))

\* hp.pixwin(64): the pixel window of NSIDE 64, l = 0..4*NSIDE; W_0 = 1 and
\* a stand-in value below 1 for the other multipoles
Pixwin == [k \in 1..(4 * NSide + 1) |-> IF k = 1 THEN One ELSE Mk(1, 3, 0)]

\* hp.gauss_beam(fwhm, lmax=lmax): lmax+1 values; B_0 = 1 and a stand-in
\* value below 1 for the other multipoles
GaussBeam(lmax) == [k \in 1..(lmax + 1) |-> IF k = 1 THEN One ELSE Mk(1, 2, 0)]

\* if pixWin: lmax = 250
LmaxAfterPixWin(pixWin, lmax) == IF pixWin THEN SmoothLmax ELSE lmax

\* a slip: the beam branch leaves lmax alone
LmaxKept(beamSmooth, lmax) == lmax

\* if beamSmooth: lmax = 250
LmaxAfterBeam(beamSmooth, lmax) == IF beamSmooth THEN SmoothLmax ELSE lmax

\* lmax as it stands at "lmax cutoff imposed"
EffectiveLmax(pixWin, beamSmooth, lmax) ==
  LmaxAfterBeam(beamSmooth, LmaxAfterPixWin(pixWin, lmax))

\* a 1-d array, or the exception a failed operation raised
Ok(a) == [ok |-> TRUE, val |-> a]

ShapeError == [ok |-> FALSE, val |-> <<>>]

\* a * b on two 1-d arrays under numpy's broadcasting (a float scalar is a
\* one-entry array here): equal lengths go entry by entry, a length of one
\* is stretched, anything else is a ValueError
BroadcastMul(a, b) ==
  IF ~a.ok \/ ~b.ok THEN ShapeError
  ELSE LET la == Len(a.val)
           lb == Len(b.val)
       IN  IF la = lb
           THEN Ok(Stored([k \in 1..la |-> RMul(a.val[k], b.val[k])]))
           ELSE IF la = 1
           THEN Ok(Stored([k \in 1..lb |-> RMul(a.val[1], b.val[k])]))
           ELSE IF lb = 1
           THEN Ok(Stored([k \in 1..la |-> RMul(a.val[k], b.val[1])]))
           ELSE ShapeError

\* a**2, elementwise
Squared(a) == Stored([k \in 1..Len(a) |-> RMul(a[k], a[k])])

\* (2*ell[:lmax+1]+1)/(4*np.pi) with ell = np.arange(temps.size), in units
\* of 1/(4 pi)
Fac(size, lmax) == [k \in 1..Min(lmax + 1, size) |-> FromInt(2 * (k - 1) + 1)]

\* a slip: the low multipoles are kept
NotHighpassed(C_l, highpass) == C_l

\* np.concatenate((np.zeros(highpass), C_l[highpass:]))
Highpassed(C_l, highpass) == [k \in 1..highpass |-> Zero] \o Drop(C_l, highpass)

\* C_l * 1e12 when useMicro
Rescaled(C_l, useMicro) ==
  IF useMicro THEN [k \in 1..Len(C_l) |-> RMul(C_l[k], Mk(1, 1, MicroExp))]
  ELSE C_l

\* preFac_l = fac_l * B_l**2 * W_l**2 * C_l[:lmax+1]
PreFac(fac_l, B_l, W_l, C_l, lmax) ==
  BroadcastMul(BroadcastMul(BroadcastMul(Ok(fac_l), Ok(Squared(B_l))),
                            Ok(Squared(W_l))),
               Ok(Take(C_l, lmax + 1)))

\* one pass of the loop of numpy.polynomial.legendre.legval (Clenshaw
\* recursion), for i in range(3, len(c) + 1), on the pair <<c0, c1>>:
\*   tmp = c0;  nd = nd - 1
\*   c0 = c[-i] - (c1*(nd - 1))/nd
\*   c1 = tmp + (c1*x*(2*nd - 1))/nd
\* nd starts at len(c), so it is len(c) + 2 - i after the decrement
LegvalStep(c, x, i, st) ==
  LET nd == Len(c) + 2 - i
      c0 == st[1]
      c1 == st[2]
  IN  << RSub(c[Len(c) + 1 - i], RDiv(RMul(c1, FromInt(nd - 1)), FromInt(nd))),
         RAdd(c0, RDiv(RMul(RMul(c1, x), FromInt(2 * nd - 1)), FromInt(nd))) >>

\* the passes lo..hi of the loop, in order.  They are split in halves, and
\* the first half is computed (the test on its length) before the second
\* starts, only to keep TLC's evaluation shallow.
RECURSIVE LegvalPasses(_, _, _, _, _)
LegvalPasses(c, x, lo, hi, st) ==
  IF lo > hi THEN st
  ELSE IF lo = hi THEN LegvalStep(c, x, lo, st)
  ELSE LET mid  == (lo + hi) \div 2
           half == LegvalPasses(c, x, lo, mid, st)
       IN  IF Len(half) = 2 THEN LegvalPasses(c, x, mid + 1, hi, half) ELSE half

\* legval(x, c): the Legendre series sum of c[l] * P_l(x)
Legval(x, c) ==
  LET st == IF Len(c) = 1 THEN <<c[1], Zero>>
            ELSE IF Len(c) = 2 THEN <<c[1], c[2]>>
            ELSE LegvalPasses(c, x, 3, Len(c), <<c[Len(c) - 1], c[Len(c)]>>)
  IN  RAdd(st[1], RMul(st[2], x))

\* the rows filled for column >= row only
CovUpper(cosThetaArray, preFac_l) ==
  [row \in 1..Len(cosThetaArray) |-> [column \in 1..Len(cosThetaArray) |->
     IF column >= row THEN Legval(cosThetaArray[row][column], preFac_l)
     ELSE Zero]]

\* a slip: the diagonal, counted twice by the sum, is not taken off again
CovCombineKeepsDiag(covArray) == MatAdd(covArray, Transpose(covArray))

\* covArray + covArray.T - np.diag(np.diag(covArray))
CovCombine(covArray) ==
  MatSub(MatAdd(covArray, Transpose(covArray)), DiagDiag(covArray))

MakeCmatrixResult(maskFile, powerFile, highpass, beamSmooth, pixWin, lmax0, useMicro, nested) ==
  LET mask          == ReadMap(maskFile, nested)
      C_l0          == powerFile
      unitVectors   == TakeWhere(CoordVecs(nested), mask)
      cosThetaArray == CosThetaArray(unitVectors)
      lmaxW         == LmaxAfterPixWin(pixWin, lmax0)
      W_l           == IF pixWin THEN Take(Pixwin, lmaxW + 1) ELSE <<One>>
      lmax          == EffectiveLmax(pixWin, beamSmooth, lmax0)
      B_l           == IF beamSmooth THEN GaussBeam(LmaxAfterBeam(beamSmooth, lmaxW))
                       ELSE <<One>>
      fac_l         == Fac(Len(C_l0), lmax)
      C_l           == Rescaled(Highpassed(C_l0, highpass), useMicro)
      preFac_l      == PreFac(fac_l, B_l, W_l, C_l, lmax)
  IN  IF ~preFac_l.ok
      THEN [kind |-> "error", err |-> "ValueError", lmax |-> lmax]
      ELSE LET upper == CovUpper(cosThetaArray, preFac_l.val)
           IN  [kind |-> "array", val |-> CovCombine(upper), lmax |-> lmax,
                unitVectors |-> unitVectors, cosThetaArray |-> cosThetaArray,
                preFac_l |-> preFac_l.val, upper |-> upper]

\* a FITS mask over the sky, stored in RING order
MaskFile(m) == [ordering |-> "RING", data |-> m]

\* a power spectrum of the given length: C_0 = 1, then v * (l + 1) for the
\* other leading multipoles, zero beyond them
Spectrum(len, v) ==
  [k \in 1..len |-> IF k = 1 THEN One
                    ELSE IF k <= SpecHead THEN FromInt(v * k) ELSE Zero]

\* spectra shorter than, as long as, and longer than the series (a file of
\* a single multipole, which numpy would stretch over the kernels, is left out)
SpectrumLengths == {MaxLmax, SmoothLmax + 1}

InitMake ==
  /\ op = "init"
  /\ \E m \in [1..NPix -> {0, 1}], len \in SpectrumLengths, v \in 0..MaxVal,
        hp \in 0..MaxHighpass, bs \in BOOLEAN, pw \in BOOLEAN,
        lm \in 0..MaxLmax, um \in BOOLEAN, ne \in BOOLEAN :
       args = [maskFile |-> MaskFile(m), powerFile |-> Spectrum(len, v),
               highpass |-> hp, beamSmooth |-> bs, pixWin |-> pw, lmax |-> lm,
               useMicro |-> um, nested |-> ne]
  /\ disk = NoFile
  /\ ret = None

\* a run is one call of makeCmatrix
MakeCmatrix ==
  /\ op = "init"
  /\ op' = "makeCmatrix"
  /\ ret' = MakeCmatrixResult(args.maskFile, args.powerFile, args.highpass,
                              args.beamSmooth, args.pixWin, args.lmax,
                              args.useMicro, args.nested)
  /\ UNCHANGED <<args, disk>>

NextMake == MakeCmatrix

SpecMake == InitMake /\ [][NextMake]_vars

\* the array is square and symmetric
SymmetricArray(a) ==
  /\ \A i \in 1..Len(a) : Len(a[i]) = Len(a)
  /\ IsSymmetric(a)

\* C7: the matrix makeCmatrix returns is exactly symmetric: the entries with
\* column >= row are the Legendre series at the pair's cosine, nothing is
\* computed below the diagonal, every lower entry is the copy of its mirror,
\* and every diagonal entry is the series at cosine 1.0, that is the sum of
\* the weights, once and not twice.
C7_SymmetricByMirror ==
  (op = "makeCmatrix" /\ ret.kind = "array") =>
    LET cov  == ret.val
        N    == Len(ret.unitVectors)
        atOne == Legval(One, ret.preFac_l)
    IN  /\ Len(cov) = N
        /\ SymmetricArray(cov)
        /\ N > 0 => atOne = SumSeq(ret.preFac_l)
        /\ \A i \in 1..N :
              /\ ret.cosThetaArray[i][i] = One
              /\ cov[i][i] = atOne
        /\ \A i, j \in 1..N :
              i < j =>
                /\ ret.upper[j][i] = Zero
                /\ cov[i][j] =
                     Legval(FromInt(Dot3(ret.unitVectors[i], ret.unitVectors[j])),
                            ret.preFac_l)
                /\ cov[j][i] = ret.upper[i][j]

C7_Witness ==
  /\ op = "makeCmatrix"
  /\ ret.kind = "array"
  /\ Len(ret.val) = 3
  /\ ret.val[1][1] # Zero
  /\ ret.val[1][2] # Zero
  /\ ret.val[1][2] # ret.val[1][1]
  /\ ret.val[2][1] = ret.val[1][2]
  /\ ret.val[1][3] # ret.val[1][2]

FormulaWeight(l, lmax) ==
  LET B  == IF args.beamSmooth THEN GaussBeam(lmax)[l + 1] ELSE One
      W  == IF args.pixWin THEN Pixwin[l + 1] ELSE One
      C  == args.powerFile[l + 1]
      Cs == IF args.useMicro THEN RMul(C, Mk(1, 1, 12)) ELSE C
  IN  RMul(RMul(RMul(FromInt(2 * l + 1), RMul(B, B)), RMul(W, W)), Cs)

\* only C_0 of the spectrum is non-zero
OnlyMonopole(C_l) ==
  /\ C_l[1] # Zero
  /\ \A k \in 2..Len(C_l) : C_l[k] = Zero

\* C11: in makeCmatrix on a spectrum that holds the multipoles 0..lmax, the
\* weight of every multipole l in 0..lmax is 0 when l < highpass and
\* (2l+1)/(4 pi) * B_l^2 * W_l^2 * C_l when l >= highpass, an absent kernel
\* being the factor 1 and the rescale multiplying every C_l once; rescaling
\* before or after the highpass zeroing gives the same C_l, hence the same
\* weights; and with highpass = 0, no smoothing and only C_0 non-zero every
\* entry of the matrix is (1/(4 pi)) * C_0.
C11_WeightFormula ==
  (op = "makeCmatrix" /\ Len(args.powerFile) >= ret.lmax + 1) =>
    /\ ret.kind = "array"
    /\ Len(ret.preFac_l) = ret.lmax + 1
    /\ \A l \in 0..ret.lmax :
         ret.preFac_l[l + 1] =
           IF l < args.highpass THEN Zero ELSE FormulaWeight(l, ret.lmax)
    /\ Rescaled(Highpassed(args.powerFile, args.highpass), args.useMicro)
         = Highpassed(Rescaled(args.powerFile, args.useMicro), args.highpass)
    /\ (args.highpass = 0 /\ ~args.beamSmooth /\ ~args.pixWin
          /\ OnlyMonopole(args.powerFile)) =>
         \A i, j \in 1..Len(ret.val) : ret.val[i][j] = FormulaWeight(0, ret.lmax)

\* a smoothed, rescaled run whose non-zero C_0 is zeroed by the highpass and
\* whose next weight is 3 * (1/2)^2 * (1/3)^2 * C_1 * 1e12
C11_Witness ==
  /\ op = "makeCmatrix"
  /\ ret.kind = "array"
  /\ args.highpass = 1 /\ args.beamSmooth /\ args.pixWin /\ args.useMicro
  /\ args.powerFile[1] # Zero
  /\ args.powerFile[2] # Zero
  /\ ret.preFac_l[1] = Zero
  /\ ret.preFac_l[2] = RMul(Mk(1, 12, 12), args.powerFile[2])
  /\ Len(ret.val) = 3

(***************************************************************************)
(* chisquare_test.test                                                     *)
(***************************************************************************)
\* lmax=250 in test's call of makeCmatrix
TestLmax == 250
\* Tvec*1e6, the K to microK rescale
MicroKExp == 6

\* nested, as makeCmatrix takes it when the caller leaves it out
NestedDefault == FALSE

\* nest=True in test's hp.read_map of the mask
TestMaskNest == TRUE

\* hp.synfast(temps, NSIDE, ...): a random map in RING order.  The pixel at
\* RING number r is written as its sky position; its temperature stays
\* symbolic
Synfast == RingVecs

\* the routine test picks for the inversion
InvertMethod(useRD, useCho) ==
  IF useRD THEN "RDInvert" ELSE IF useCho THEN "choInvert" ELSE "inv"

\* the inverse of a covariance matrix, symbolic: the routine, the matrix, and
\* the sky pixel of each row, which is the pixel of that row of the matrix
Inverse(method, covMat) ==
  [method |-> method, of |-> covMat.val, rows |-> covMat.unitVectors]

\* an inverse matrix file left by an earlier run over the same mask
EarlierInverse(maskFile) ==
  [exists |-> TRUE,
   data |-> [method |-> "choInvert", of |-> <<>>,
             rows |-> TakeWhere(CoordVecs(NestedDefault),
                                ReadMap(maskFile, NestedDefault))]]

\* the data vector of one trial: map[np.where(mask)], times 1e6 with useMicro
Tvec(mask, useMicro) ==
  [pixels |-> TakeWhere(Synfast, mask),
   factor |-> IF useMicro THEN Mk(1, 1, MicroKExp) ELSE One]

\* test(case, nTrials), with the switches at the head of its body as inputs
TestResult(maskFile, temps, invFile, newMatrix, useMicro, doBeamSmooth, doPixWin, useRD, useCho, nTrials) ==
  LET covMat  == MakeCmatrixResult(maskFile, temps, 0, doBeamSmooth, doPixWin,
                                   TestLmax, useMicro, NestedDefault)
      invCMat == IF newMatrix
                 THEN Inverse(InvertMethod(useRD, useCho), covMat)
                 ELSE invFile.data
      mask    == ReadMap(maskFile, TestMaskNest)
  IN  IF newMatrix /\ covMat.kind = "error" THEN Raised(covMat.err)
      ELSE IF ~newMatrix /\ ~invFile.exists THEN Raised("IOError")
      ELSE [kind |-> "test", invCMat |-> invCMat, mask |-> mask,
            saved |-> IF newMatrix THEN SymSaveVec(covMat.val) ELSE <<>>,
            chiSqResults |-> [t \in 1..nTrials |-> Tvec(mask, useMicro)]]

\* trials of one run
MaxTrials == 2

InitTest ==
  /\ op = "init"
  /\ \E m \in [1..NPix -> {0, 1}], ord \in {"RING", "NESTED"},
        nm \in BOOLEAN, um \in BOOLEAN, bs \in BOOLEAN, pw \in BOOLEAN,
        rd \in BOOLEAN, ch \in BOOLEAN, nt \in 1..MaxTrials, old \in BOOLEAN :
       /\ args = [maskFile |-> [ordering |-> ord, data |-> m],
                  temps |-> Spectrum(SmoothLmax + 1, MaxVal),
                  newMatrix |-> nm, useMicro |-> um, doBeamSmooth |-> bs,
                  doPixWin |-> pw, useRD |-> rd, useCho |-> ch, nTrials |-> nt]
       /\ disk = IF old THEN EarlierInverse(args.maskFile) ELSE NoFile
  /\ ret = None

\* a run is one call of test
Test ==
  /\ op = "init"
  /\ op' = "test"
  /\ ret' = TestResult(args.maskFile, args.temps, disk, args.newMatrix,
                       args.useMicro, args.doBeamSmooth, args.doPixWin,
                       args.useRD, args.useCho, args.nTrials)
  /\ disk' = IF args.newMatrix /\ ret'.kind = "test"
             THEN [exists |-> TRUE, data |-> ret'.invCMat]
             ELSE disk
  /\ UNCHANGED args

NextTest == Test

SpecTest == InitTest /\ [][NextTest]_vars

\* C9: in a run of test that builds the matrix (newMatrix), the mask that
\* restricts each realization is read in the ordering in which makeCmatrix
\* read the mask and the coordinates, so that in every trial entry k of the
\* data vector and row k of the inverse matrix are the same sky pixel.
C9_SameOrderingConvention ==
  (op = "test" /\ args.newMatrix /\ ret.kind = "test") =>
    \A t \in 1..Len(ret.chiSqResults) :
      ret.chiSqResults[t].pixels = ret.invCMat.rows

\* the run in which the two differ: one active pixel, built and tested
C9_Mismatch ==
  /\ op = "test"
  /\ args.newMatrix
  /\ ret.kind = "test"
  /\ Len(ret.invCMat.rows) = 1
  /\ ret.chiSqResults[1].pixels # ret.invCMat.rows

=============================================================================
